---------------------------- MODULE Spec2Model ----------------------------
(***************************************************************************)
(* A model of SoundJSON's converter (src/SoundJSON/sound_json.py).         *)
(*                                                                         *)
(* convertFile dispatches one path to one of three things: the walk of a   *)
(* directory, the soundfont pipeline sf22soundJson, or the zone-text       *)
(* pipeline sfz2soundJson.  The variable `kind` holds that dispatch; each  *)
(* pipeline is a state machine over its own variables.                     *)
(*                                                                         *)
(* Python strings are sequences of one-character strings, Python dicts     *)
(* are functions, None is the string "None".                               *)
(***************************************************************************)
EXTENDS Integers, Sequences, FiniteSets, TLC

(***************************************************************************)
(* Bounds of the model.                                                    *)
(***************************************************************************)
\* most lines of the zone-definition file that is converted
MaxLines == 3
\* most entries of the directory convertFile is given
MaxEntries == 3
\* most instruments in one container
MaxInstruments == 3
\* most sf22soundJson calls on the same container in one behaviour
MaxRuns == 3
\* most samples of a buffer handed to buffer2mp3b64 or buffer2wavb64
MaxFrames == 34

(***************************************************************************)
(* State.                                                                  *)
(***************************************************************************)
VARIABLES
    kind,          \* what convertFile dispatched to: "sf2", "sfz" or "dir"
    \* ---- sf22soundJson
    sf2,           \* sf2.instruments of the container (fixed)
    cpu_count,     \* os.cpu_count() (fixed)
    outdir,        \* the JSON files of filename_noext: file name -> patch
    force,         \* the running call's force argument
    pc,            \* where the running call is
    idx,           \* position of the loop over sf2.instruments
    name_counts,   \* sanitized name -> times seen
    instruments,   \* the (sf2inst, unique_name) pairs
    future,        \* each submitted task's state
    merged,        \* the futures as_completed has handed to the caller
    patches,       \* the mapping the call builds and returns
    runs,          \* the calls that have ended, oldest first
    \* ---- sfz2soundJson
    sfz,           \* the lines of the file convertFile is given (fixed)
    replaceDicts,  \* the macro tables alive; the first is the dict that is
                   \* sfz2soundJson's default argument
    jsonfiles,     \* the output JSON files on disk: file -> text
    stack,         \* the sfz2soundJson calls in progress, outermost first
    ret,           \* how the outermost call ended, once it has
    sfz_calls,     \* how many sfz2soundJson calls convertFile has issued
    \* ---- convertFile on a directory
    tree,          \* the directory convertFile is given (fixed)
    walk,          \* the convertFile calls on directories in progress
    attempted,     \* the entries convertFile was called on, as paths
    dir_ret,       \* how the outermost convertFile ended, once it has
    \* ---- buffer2mp3b64, buffer2wavb64
    buffer,        \* y, the buffer the function is given (fixed)
    encoded        \* how the call ended, once it has, and the PCM it encoded

sf2vars == << sf2, cpu_count, outdir, force, pc, idx, name_counts, instruments,
              future, merged, patches, runs >>

sfzvars == << sfz, replaceDicts, jsonfiles, stack, ret, sfz_calls >>

dirvars == << tree, walk, attempted, dir_ret >>

bufvars == << buffer, encoded >>

vars == << kind, sf2vars, sfzvars, dirvars, bufvars >>

(***************************************************************************)
(* Strings.                                                                *)
(***************************************************************************)
\* The characters the inputs use, in code point order (str comparison and
\* sorted() order strings by code point).
AsciiOrder ==
    << " ", "(", ")", "-", ".", "/", "0", "1", "2", "3", "4", "5", "6", "7",
       "8", "9", "D", "E", "I", "L", "N", "O", "P", "_", "a", "b", "c", "d",
       "e", "f", "g", "h", "i", "j", "l", "m", "n", "o", "p", "r", "s", "t",
       "u", "y" >>

Ord(c) == CHOOSE i \in 1..Len(AsciiOrder) : AsciiOrder[i] = c

\* s < t for two strings, as Python compares them
RECURSIVE StrLess(_, _)
StrLess(s, t) ==
    IF t = << >> THEN FALSE
    ELSE IF s = << >> THEN TRUE
    ELSE IF Head(s) = Head(t) THEN StrLess(Tail(s), Tail(t))
    ELSE Ord(Head(s)) < Ord(Head(t))

\* str.isalnum() of one character: of AsciiOrder, the digits and letters
IsAlnum(c) == Ord(c) >= Ord("0") /\ c # "_"

\* str(n) of a natural number
RECURSIVE IntToStr(_)
IntToStr(n) ==
    IF n < 10 THEN << AsciiOrder[Ord("0") + n] >>
    ELSE IntToStr(n \div 10) \o << AsciiOrder[Ord("0") + (n % 10)] >>

\* str.strip(): leading and trailing whitespace removed
RECURSIVE LStrip(_)
LStrip(s) == IF s # << >> /\ Head(s) = " " THEN LStrip(Tail(s)) ELSE s

RECURSIVE RStrip(_)
RStrip(s) ==
    IF s # << >> /\ s[Len(s)] = " " THEN RStrip(SubSeq(s, 1, Len(s) - 1)) ELSE s

Strip(s) == RStrip(LStrip(s))

\* a sequence of the elements of a finite set of strings, ascending: sorted()
RECURSIVE Sorted(_)
Sorted(S) ==
    IF S = {} THEN << >>
    ELSE LET m == CHOOSE x \in S : \A y \in S \ {x} : StrLess(x, y)
         IN  << m >> \o Sorted(S \ {m})

\* dict.update / d[k] = v
Put(d, k, v) == [x \in DOMAIN d \cup {k} |-> IF x = k THEN v ELSE d[x]]

EmptyDict == [x \in {} |-> 0]

(***************************************************************************)
(* sanitize_filename                                                       *)
(***************************************************************************)
safe_chars == {"-", "_", ".", "(", ")", " "}

DefaultName == << "i", "n", "s", "t", "r", "u", "m", "e", "n", "t" >>

sanitize_filename(name) ==
    LET sanitized ==
            Strip([i \in 1..Len(name) |->
                     IF IsAlnum(name[i]) \/ name[i] \in safe_chars
                     THEN name[i] ELSE "_"])
    IN  IF sanitized # << >> THEN sanitized ELSE DefaultName

(***************************************************************************)
(* The containers: the instruments a decoded soundfont exposes.            *)
(***************************************************************************)
EOI == << "E", "O", "I" >>

\* A bag: `sample` is "None" or the sample's name, base_note the zone's root
\* key override (<< >> for None, << key >> otherwise), original_pitch the
\* sample header's pitch, frames the length of the sample's PCM buffer.
Bag(sample, base_note, original_pitch, frames) ==
    [sample |-> sample, base_note |-> base_note,
     original_pitch |-> original_pitch, frames |-> frames]

\* The instruments the containers are made of.  The names exercise the
\* sanitizer ("/" is replaced), the numeric suffix ("P_1" is a name of its
\* own) and the end marker; one instrument has a bag without a sample, one
\* a sample with an empty buffer.
InstrumentPool ==
    { [name |-> << "P" >>,
       bags |-> << Bag("s1", << 60 >>, 48, 64), Bag("None", << >>, 0, 0),
                   Bag("s2", << >>, 50, 40) >>],
      [name |-> << "P", "_", "1" >>, bags |-> << Bag("s3", << >>, 72, 64) >>],
      [name |-> << "P", "/", "1" >>, bags |-> << Bag("s4", << >>, 60, 0) >>],
      [name |-> EOI, bags |-> << >>] }

Containers ==
    UNION { [1..n -> InstrumentPool] : n \in 0..MaxInstruments }

\* os.cpu_count(): None (0 here) or the number of processors
CpuCounts == {0, 16}

InFilename == << "b", ".", "s", "f", "2" >>
JsonExt == << ".", "j", "s", "o", "n" >>

(***************************************************************************)
(* Zone-definition text.  A line is the sequence of its words (what        *)
(* split(" ") gives); a word is a sequence of atoms, the pieces of text    *)
(* the preprocessor and the tokenizer tell apart.  A file name is the      *)
(* word << base, extension >>.                                             *)
(***************************************************************************)
Word(a) == << a >>
Header(name) == << "<", name, ">" >>
Attr(k, v) == << k, "=", v >>
Quoted(f) == << "'" >> \o f \o << "'" >>

SfzFile(base) == << base, ".sfz" >>

\* the file convertFile is given, and a file next to it in the directory
TopFile == SfzFile("a")
SiblingFile == SfzFile("z")

\* The files convertFile is given in one process, in order: a walk over the
\* directory of both, and the first file once more.
Given == << TopFile, SiblingFile, TopFile >>

\* The lines the converted file is made of.
LinePool ==
    { << Header("global"), Attr("volume", "1"), Attr("pitch_keycenter", "c4") >>,
      << Header("master"), Attr("volume", "$V") >>,
      << Header("group"), Attr("volume", "2") >>,
      << Header("region"), Attr("sample", "k.wav"), Attr("volume", "3"),
         Attr("pitch_keycenter", "60"), Word("//"), Word("kick") >>,
      << Header("region"), Attr("sample", "none.wav") >>,
      << Header("effect"), Attr("bus", "1") >>,
      << Word("#define"), Word("$V"), Word("5") >>,
      << Word("#include"), Quoted(SfzFile("b")) >> }

\* The files an #include can name, and their lines.  Every other file is
\* missing.
Library ==
    [b |-> << << Word("#define"), Word("$V"), Word("7"), Word("8") >>,
              << Word("#include"), Quoted(SfzFile("c")) >>,
              << Word("#include"), Quoted(SfzFile("m")) >>,
              << Header("control"), Attr("default_path", "sub") >>,
              << Header("region"), Attr("sample", "k.wav"),
                 Attr("pitch_keycenter", "c4"), Attr("volume", "$V") >> >>,
     c |-> << << Word("//"), Word("curves") >>,
              << Word("#define"), Word("$W"), Word("1") >>,
              << Header("curve"), Attr("curve_index", "$W") >> >>,
     z |-> << << Header("region"), Attr("sample", "k.wav"),
                 Attr("pitch_keycenter", "60"), Attr("volume", "$V") >> >>]

SfzInputs == UNION { [1..n -> LinePool] : n \in 0..MaxLines }

\* os.path.exists(filename) for a zone-definition file
SfzExists(filename) ==
    filename = TopFile \/ (filename[2] = ".sfz" /\ filename[1] \in DOMAIN Library)

\* f.read().split("\n") of a zone-definition file
SfzLines(filename) == IF filename = TopFile THEN sfz ELSE Library[filename[1]]

\* The sample files on disk, as << directory, name >>, and the length of the
\* buffer librosa.load decodes from each.
BaseDir == << "." >>

SampleDisk ==
    { << BaseDir, << "k.wav" >> >>, << BaseDir \o << "sub" >>, << "k.wav" >> >> }

SampleFrames(sampleFilename) == 64

\* The largest and the smallest sample of the buffer librosa.load decodes,
\* in tenths of full scale: the largest swing of ./k.wav is negative.
SampleExtremes(sampleFilename) ==
    IF sampleFilename[1] = BaseDir THEN [max |-> 5, min |-> 0 - 10]
    ELSE [max |-> 10, min |-> 0 - 5]

\* line 197, 0.7/np.max(y), as the fraction n/d
SfzGain(sampleFilename) == [n |-> 7, d |-> SampleExtremes(sampleFilename).max]

(***************************************************************************)
(* sfz2soundJson: the preprocessor (lines 155-170)                         *)
(***************************************************************************)
\* ogline.startswith("//")
IsCommentLine(ogline) ==
    ogline # << >> /\ ogline[1] # << >> /\ ogline[1][1] = "//"

\* ogline.split("//")[0]
RECURSIVE BeforeComment(_)
BeforeComment(ogline) ==
    IF ogline = << >> THEN << >>
    ELSE LET w == Head(ogline)
             at == {i \in 1..Len(w) : w[i] = "//"}
         IN  IF at = {} THEN << w >> \o BeforeComment(Tail(ogline))
             ELSE LET i == CHOOSE i \in at : \A j \in at : i <= j
                  IN  IF i = 1 THEN << >> ELSE << SubSeq(w, 1, i - 1) >>

\* str.replace(k, v) within one word
RECURSIVE ReplaceIn(_, _, _)
ReplaceIn(w, k, v) ==
    IF k = << >> \/ Len(w) < Len(k) THEN w
    ELSE IF SubSeq(w, 1, Len(k)) = k
         THEN v \o ReplaceIn(SubSeq(w, Len(k) + 1, Len(w)), k, v)
         ELSE << Head(w) >> \o ReplaceIn(Tail(w), k, v)

\* lines 159-160: every macro of the table applied, in the table's order
RECURSIVE ApplyMacros(_, _)
ApplyMacros(line, table) ==
    IF table = << >> THEN line
    ELSE ApplyMacros([i \in 1..Len(line) |->
                        ReplaceIn(line[i], Head(table).k, Head(table).v)],
                     Tail(table))

\* "#include" in line
HasInclude(line) ==
    \E i \in 1..Len(line) : \E j \in 1..Len(line[i]) : line[i][j] = "#include"

\* line.split("#include")[1].strip().split(" ")[0]
IncludeOperand(line) ==
    LET i == CHOOSE i \in 1..Len(line) :
                 /\ \E j \in 1..Len(line[i]) : line[i][j] = "#include"
                 /\ \A h \in 1..(i - 1) :
                        \A j \in 1..Len(line[h]) : line[h][j] # "#include"
        j == CHOOSE j \in 1..Len(line[i]) :
                 /\ line[i][j] = "#include"
                 /\ \A h \in 1..(j - 1) : line[i][h] # "#include"
        rest == SubSeq(line[i], j + 1, Len(line[i]))
        later == {h \in (i + 1)..Len(line) : line[h] # << >>}
    IN  IF rest # << >> THEN rest
        ELSE IF later = {} THEN << >>
        ELSE line[CHOOSE h \in later : \A g \in later : h <= g]

\* whether eval() of the operand gives a string
IsQuoted(w) == Len(w) >= 2 /\ w[1] = "'" /\ w[Len(w)] = "'"

\* eval() of a quoted file name
Eval(w) == SubSeq(w, 2, Len(w) - 1)

\* line.startswith("#define")
StartsWithDefine(line) ==
    line # << >> /\ line[1] # << >> /\ line[1][1] = "#define"

\* "".join(words)
RECURSIVE Join(_)
Join(words) == IF words = << >> THEN << >> ELSE Head(words) \o Join(Tail(words))

\* line 168
DefineKey(line) == line[2]
DefineValue(line) == Join(SubSeq(line, 3, Len(line)))

\* replaceDict[k] = v
SetItem(table, k, v) ==
    IF \E i \in 1..Len(table) : table[i].k = k
    THEN [i \in 1..Len(table) |->
             IF table[i].k = k THEN [k |-> k, v |-> v] ELSE table[i]]
    ELSE Append(table, [k |-> k, v |-> v])

\* the included file is handed the including file's own table
IncludeArgShared(tables, ref) == [tables |-> tables, ref |-> ref]

\* line 166, replaceDict.copy(): the table an included file is handed, and
\* the tables alive then
IncludeArg(tables, ref) ==
    [tables |-> Append(tables, tables[ref]), ref |-> Len(tables) + 1]

(***************************************************************************)
(* The tokenizer, sfzparser.SFZParser: the sections of a preprocessed      *)
(* text.  A "<name>" word opens a section, a "key=value" word gives the    *)
(* open section an attribute, a comment line is a section of its own, and  *)
(* anything else is passed over.                                           *)
(***************************************************************************)
IsHeader(w) == Len(w) = 3 /\ w[1] = "<" /\ w[3] = ">"
IsAttr(w) == Len(w) >= 2 /\ w[2] = "="

Section(name, attrs) == [name |-> name, attrs |-> attrs]

TokenizeWord(sections, w) ==
    IF IsHeader(w) THEN Append(sections, Section(w[2], EmptyDict))
    ELSE IF IsAttr(w) /\ sections # << >>
              /\ sections[Len(sections)].name # "comment"
         THEN [sections EXCEPT ![Len(sections)].attrs =
                  Put(@, w[1], SubSeq(w, 3, Len(w)))]
         ELSE sections

RECURSIVE TokenizeLine(_, _)
TokenizeLine(sections, line) ==
    IF line = << >> THEN sections
    ELSE TokenizeLine(TokenizeWord(sections, Head(line)), Tail(line))

RECURSIVE TokenizeText(_, _)
TokenizeText(sections, text) ==
    IF text = << >> THEN sections
    ELSE TokenizeText(
             IF IsCommentLine(Head(text))
             THEN Append(sections, Section("comment", EmptyDict))
             ELSE TokenizeLine(sections, Head(text)),
             Tail(text))

SFZParser(preProcessText) == TokenizeText(<< >>, preProcessText)

\* int() of the numerals the inputs use; sfz_note_to_midi_key of the notes
Numerals == ("60" :> 60) @@ ("1" :> 1) @@ ("2" :> 2) @@ ("3" :> 3)
Notes == ("c4" :> 60)

(***************************************************************************)
(* sfz2soundJson: the resolver (lines 172-233)                             *)
(***************************************************************************)
OutFilename(filename) == << filename[1], ".json" >>

NewSoundJsonDict(filename) ==
    [globalDict |-> EmptyDict, masterDict |-> EmptyDict,
     groupDict |-> EmptyDict, displayName |-> filename[1],
     path |-> << BaseDir, filename[1] >>, success |-> TRUE,
     samples |-> << >>, samplesLoadPoint |-> BaseDir]

\* lines 186-187: every entry of d written into sampleDict
CopyInto(sampleDict, d) ==
    [k \in DOMAIN sampleDict \cup DOMAIN d |->
        IF k \in DOMAIN d THEN d[k] ELSE sampleDict[k]]

\* lines 185-187
Inherit(sampleDict, soundJsonDict) ==
    CopyInto(CopyInto(CopyInto(sampleDict, soundJsonDict.globalDict),
                      soundJsonDict.masterDict),
             soundJsonDict.groupDict)

\* sampleNo counts the regions seen, skipped ones too
SfzSampleNoOfRegion(soundJsonDict, regionsSeen) == regionsSeen

\* line 212
SfzSampleNo(soundJsonDict, regionsSeen) == Len(soundJsonDict.samples)

\* lines 219-222
PitchRaises(sampleDict) ==
    \/ "pitch_keycenter" \notin DOMAIN sampleDict
    \/ /\ Len(sampleDict["pitch_keycenter"]) = 1
       /\ sampleDict["pitch_keycenter"][1] \notin DOMAIN Numerals \cup DOMAIN Notes
    \/ Len(sampleDict["pitch_keycenter"]) # 1

PitchKey(sampleDict) ==
    LET a == sampleDict["pitch_keycenter"][1]
    IN  IF a \in DOMAIN Numerals THEN Numerals[a] ELSE Notes[a]

\* lines 184-223: what a region section comes to
Region(sampleDict, soundJsonDict, regionsSeen) ==
    LET d == Inherit(sampleDict, soundJsonDict)
    IN  IF "sample" \notin DOMAIN d THEN [is |-> "raise", why |-> "KeyError"]
        ELSE LET sampleFilename == << soundJsonDict.samplesLoadPoint, d["sample"] >>
             IN  IF sampleFilename \notin SampleDisk THEN [is |-> "skip"]
                 ELSE IF PitchRaises(d) THEN [is |-> "raise", why |-> "KeyError"]
                 ELSE [is |-> "append",
                       zone |-> [k \in DOMAIN d \cup
                                       {"sampleFilename", "gain", "sampleNo",
                                        "lengthSamples", "pitch_keycenter"} |->
                                   CASE k = "sampleFilename" -> sampleFilename
                                     [] k = "gain" -> SfzGain(sampleFilename)
                                     [] k = "sampleNo" ->
                                            SfzSampleNo(soundJsonDict, regionsSeen)
                                     [] k = "lengthSamples" ->
                                            SampleFrames(sampleFilename)
                                     [] k = "pitch_keycenter" -> PitchKey(d)
                                     [] OTHER -> d[k]]]

\* a section name that is none of those the loop knows is never fatal
IsFatalNever(sectionName) == FALSE

\* lines 232-233
IsFatal(sectionName) ==
    sectionName \notin {"region", "global", "master", "group", "control",
                        "comment", "curve", ""}

(***************************************************************************)
(* Serialization.  A JSON text is told by the order of the patch's keys    *)
(* and by the values.                                                      *)
(***************************************************************************)
Chars(key) ==
    CASE key = "globalDict" -> << "g", "l", "o", "b", "a", "l", "D", "i", "c", "t" >>
      [] key = "masterDict" -> << "m", "a", "s", "t", "e", "r", "D", "i", "c", "t" >>
      [] key = "groupDict" -> << "g", "r", "o", "u", "p", "D", "i", "c", "t" >>
      [] key = "displayName" ->
             << "d", "i", "s", "p", "l", "a", "y", "N", "a", "m", "e" >>
      [] key = "path" -> << "p", "a", "t", "h" >>
      [] key = "success" -> << "s", "u", "c", "c", "e", "s", "s" >>
      [] key = "samples" -> << "s", "a", "m", "p", "l", "e", "s" >>
      [] key = "samplesLoadPoint" ->
             << "s", "a", "m", "p", "l", "e", "s", "L", "o", "a", "d", "P", "o",
                "i", "n", "t" >>

\* lines 174-181: the keys of soundJsonDict in the order they were set
InsertionOrder ==
    << "globalDict", "masterDict", "groupDict", "displayName", "path",
       "success", "samples", "samplesLoadPoint" >>

KeyOrder(sort_keys) ==
    LET inserted == [i \in 1..Len(InsertionOrder) |-> Chars(InsertionOrder[i])]
    IN  IF sort_keys
        THEN Sorted({inserted[i] : i \in 1..Len(inserted)})
        ELSE inserted

\* json.dumps(patch, indent=2, sort_keys=sort_keys)
JsonDumps(patch, sort_keys) ==
    [file |-> patch.file, keys |-> KeyOrder(sort_keys), dict |-> patch.dict]

\* json.dumps(outjson, indent=2, sort_keys=True) of toFile
ToFileText(patch) == JsonDumps(patch, TRUE)

\* line 239
SoundJSON(patch) == JsonDumps(patch, FALSE)

\* The gold files a run may find: none, a copy of the output file toFile
\* wrote, the text json.dumps(indent=2) gives, or a text that is neither.
GoldKinds == {"absent", "output", "dumps", "altered"}

GoldText(gold, patch) ==
    CASE gold = "output" -> ToFileText(patch)
      [] gold = "dumps" -> SoundJSON(patch)
      [] gold = "altered" ->
             SoundJSON([patch EXCEPT !.dict.displayName = "altered"])

\* lines 242-247
GoldMismatch(gold, patch) ==
    gold # "absent" /\ GoldText(gold, patch) # SoundJSON(patch)

(***************************************************************************)
(* sfz2soundJson: the calls                                                *)
(***************************************************************************)
IdleBuf ==
    /\ buffer = << >>
    /\ encoded = [how |-> "none"]

IdleDir ==
    /\ tree = [isdir |-> TRUE, ext |-> "", raises |-> FALSE, entries |-> << >>]
    /\ walk = << >>
    /\ attempted = {}
    /\ dir_ret = "none"

IdleSfz ==
    /\ sfz = << >>
    /\ replaceDicts = << << >> >>
    /\ jsonfiles = EmptyDict
    /\ stack = << >>
    /\ ret = [how |-> "none"]
    /\ sfz_calls = 0

IdleSf2 ==
    /\ sf2 = << >>
    /\ cpu_count = 0
    /\ outdir = EmptyDict
    /\ force = FALSE
    /\ pc = "idle"
    /\ idx = 0
    /\ name_counts = EmptyDict
    /\ instruments = << >>
    /\ future = [t \in {} |-> "queued"]
    /\ merged = {}
    /\ patches = EmptyDict
    /\ runs = << >>

InitSfz ==
    /\ kind = "sfz"
    /\ IdleBuf
    /\ IdleSf2
    /\ IdleDir
    /\ sfz \in SfzInputs
    /\ replaceDicts = << << >> >>
    /\ jsonfiles = EmptyDict
    /\ stack = << >>
    /\ ret = [how |-> "none"]
    /\ sfz_calls = 0

\* a call that has passed lines 140-150 and starts on its file's lines
Frame(filename, ref) ==
    [filename |-> filename, ref |-> ref, lineNo |-> 1, preProcessText |-> << >>,
     at |-> "preprocess", sections |-> << >>, sectionNo |-> 0, regionsSeen |-> 0,
     soundJsonDict |-> NewSoundJsonDict(filename)]

Top == stack[Len(stack)]

SetTop(frame) == [stack EXCEPT ![Len(stack)] = frame]

\* the line the innermost call is at: stripped, cut at "//", macros applied
Line ==
    ApplyMacros(BeforeComment(SfzLines(Top.filename)[Top.lineNo]),
                replaceDicts[Top.ref])

OgLine == SfzLines(Top.filename)[Top.lineNo]

\* what line 161 adds to preProcessText
TextOfLine == IF IsCommentLine(OgLine) THEN OgLine ELSE Line

\* the tables the calls in `frames` still refer to, the default dict among them
Alive(tables, frames) ==
    LET refs == {frames[i].ref : i \in 1..Len(frames)} \cup {1}
        last == CHOOSE r \in refs : \A q \in refs : q <= r
    IN  SubSeq(tables, 1, last)

\* an exception leaves every call in progress: sfz2soundJson catches nothing
Raise(why) ==
    /\ ret' = [how |-> "raised", why |-> why, filename |-> Top.filename,
               sections |-> Top.sections, sectionNo |-> Top.sectionNo]
    /\ stack' = << >>
    /\ replaceDicts' = Alive(replaceDicts, << >>)
    /\ UNCHANGED jsonfiles

\* lines 137-150 for a file convertFile is given: the call before it, if
\* any, has ended, and replaceDict is the default argument's dict
SfzCall ==
    /\ kind = "sfz" /\ stack = << >> /\ sfz_calls < Len(Given)
    /\ sfz_calls = 0 <=> ret.how = "none"
    /\ LET filename == Given[sfz_calls + 1]
       IN  IF OutFilename(filename) \in DOMAIN jsonfiles
           THEN /\ ret' = [how |-> "cached", filename |-> filename,
                           text |-> jsonfiles[OutFilename(filename)]]
                /\ UNCHANGED stack
           ELSE /\ stack' = << Frame(filename, 1) >>
                /\ ret' = [how |-> "none"]
    /\ sfz_calls' = sfz_calls + 1
    /\ UNCHANGED << kind, sf2vars, dirvars, bufvars, sfz, replaceDicts, jsonfiles >>

\* lines 156-161, 167-170: a line without an inclusion
PreprocessLine ==
    /\ kind = "sfz" /\ stack # << >>
    /\ Top.at = "preprocess" /\ Top.lineNo <= Len(SfzLines(Top.filename))
    /\ ~HasInclude(Line)
    /\ IF StartsWithDefine(Line) /\ Len(Line) < 2
       THEN Raise("IndexError")
       ELSE /\ replaceDicts' =
                  IF StartsWithDefine(Line)
                  THEN [replaceDicts EXCEPT ![Top.ref] =
                           SetItem(@, DefineKey(Line), DefineValue(Line))]
                  ELSE replaceDicts
            /\ stack' = SetTop([Top EXCEPT
                                  !.lineNo = @ + 1,
                                  !.preProcessText = Append(@, TextOfLine)])
            /\ UNCHANGED << jsonfiles, ret >>
    /\ UNCHANGED << kind, sf2vars, dirvars, bufvars, sfz, sfz_calls >>

\* what json.dumps gives of an sfz2soundJson call's return value
Blob(what) == << << "json", what >> >>

\* lines 162-166: a line with an inclusion, up to the included file's lines
PreprocessInclude ==
    /\ kind = "sfz" /\ stack # << >>
    /\ Top.at = "preprocess" /\ Top.lineNo <= Len(SfzLines(Top.filename))
    /\ HasInclude(Line)
    /\ IF ~IsQuoted(IncludeOperand(Line))
       THEN Raise("SyntaxError")
       ELSE LET includeFilename == Eval(IncludeOperand(Line))
                arg == IncludeArg(replaceDicts, Top.ref)
                returns == OutFilename(includeFilename) \in DOMAIN jsonfiles
                             \/ ~SfzExists(includeFilename)
                what == IF OutFilename(includeFilename) \in DOMAIN jsonfiles
                        THEN "str" ELSE "null"
            IN  /\ IF returns
                   THEN /\ stack' = SetTop([Top EXCEPT
                                  !.lineNo = @ + 1,
                                  !.preProcessText =
                                      Append(Append(@, TextOfLine), Blob(what))])
                        /\ replaceDicts' = Alive(arg.tables, stack')
                   ELSE /\ stack' =
                              Append(SetTop([Top EXCEPT !.preProcessText =
                                                Append(@, TextOfLine)]),
                                     Frame(includeFilename, arg.ref))
                        /\ replaceDicts' = arg.tables
                /\ UNCHANGED << jsonfiles, ret >>
    /\ UNCHANGED << kind, sf2vars, dirvars, bufvars, sfz, sfz_calls >>

\* lines 172-181
Tokenize ==
    /\ kind = "sfz" /\ stack # << >>
    /\ Top.at = "preprocess" /\ Top.lineNo > Len(SfzLines(Top.filename))
    /\ stack' = SetTop([Top EXCEPT !.at = "resolve",
                                   !.sections = SFZParser(Top.preProcessText),
                                   !.sectionNo = 1])
    /\ UNCHANGED << kind, sf2vars, dirvars, bufvars, sfz, sfz_calls, replaceDicts, jsonfiles, ret >>

AtSection ==
    /\ kind = "sfz" /\ stack # << >>
    /\ Top.at = "resolve" /\ Top.sectionNo <= Len(Top.sections)

TheSection == Top.sections[Top.sectionNo]

\* lines 184-223
ResolveRegion ==
    /\ AtSection /\ TheSection.name = "region"
    /\ LET r == Region(TheSection.attrs, Top.soundJsonDict, Top.regionsSeen)
       IN  IF r.is = "raise" THEN Raise(r.why)
           ELSE /\ stack' = SetTop([Top EXCEPT
                        !.sectionNo = @ + 1,
                        !.regionsSeen = @ + 1,
                        !.soundJsonDict.samples =
                            IF r.is = "append" THEN Append(@, r.zone) ELSE @])
                /\ UNCHANGED << replaceDicts, jsonfiles, ret >>
    /\ UNCHANGED << kind, sf2vars, dirvars, bufvars, sfz, sfz_calls >>

\* lines 225-226
ResolveInherited ==
    /\ AtSection /\ TheSection.name \in {"global", "master", "group"}
    /\ stack' = SetTop([Top EXCEPT
             !.sectionNo = @ + 1,
             !.soundJsonDict =
                 CASE TheSection.name = "global" ->
                          [@ EXCEPT !.globalDict = TheSection.attrs]
                   [] TheSection.name = "master" ->
                          [@ EXCEPT !.masterDict = TheSection.attrs]
                   [] TheSection.name = "group" ->
                          [@ EXCEPT !.groupDict = TheSection.attrs]])
    /\ UNCHANGED << kind, sf2vars, dirvars, bufvars, sfz, sfz_calls, replaceDicts, jsonfiles, ret >>

\* lines 227-231
ResolveControl ==
    /\ AtSection /\ TheSection.name = "control"
    /\ stack' = SetTop([Top EXCEPT
             !.sectionNo = @ + 1,
             !.soundJsonDict.samplesLoadPoint =
                 IF "default_path" \in DOMAIN TheSection.attrs
                 THEN BaseDir \o TheSection.attrs["default_path"]
                 ELSE IF "prefix_sfz_path" \in DOMAIN TheSection.attrs
                      THEN BaseDir
                      ELSE @])
    /\ UNCHANGED << kind, sf2vars, dirvars, bufvars, sfz, sfz_calls, replaceDicts, jsonfiles, ret >>

\* lines 232-233
ResolveOther ==
    /\ AtSection
    /\ TheSection.name \notin {"region", "global", "master", "group", "control"}
    /\ IF IsFatal(TheSection.name)
       THEN Raise("Unknown sfz header")
       ELSE /\ stack' = SetTop([Top EXCEPT !.sectionNo = @ + 1])
            /\ UNCHANGED << replaceDicts, jsonfiles, ret >>
    /\ UNCHANGED << kind, sf2vars, dirvars, bufvars, sfz, sfz_calls >>

\* lines 235-248: the file is written, the gold file compared, the patch
\* returned: to the including call's line 166, or to convertFile
Finish ==
    /\ kind = "sfz" /\ stack # << >>
    /\ Top.at = "resolve" /\ Top.sectionNo > Len(Top.sections)
    /\ \E gold \in GoldKinds :
          LET patch == [file |-> Top.filename, dict |-> Top.soundJsonDict]
              returned ==
                  IF GoldMismatch(gold, patch)
                  THEN [patch EXCEPT !.dict.success = FALSE]
                  ELSE patch
              rest == SubSeq(stack, 1, Len(stack) - 1)
          IN  /\ jsonfiles' = Put(jsonfiles, OutFilename(Top.filename),
                                  ToFileText(patch))
              /\ IF rest = << >>
                 THEN /\ stack' = << >>
                      /\ ret' = [how |-> "returned", gold |-> gold,
                                 goldtext |-> IF gold = "absent" THEN << >>
                                              ELSE << GoldText(gold, patch) >>,
                                 patch |-> returned]
                 ELSE /\ stack' =
                            [rest EXCEPT ![Len(rest)] =
                                [@ EXCEPT !.lineNo = @ + 1,
                                          !.preProcessText =
                                              Append(@, Blob("dict"))]]
                      /\ UNCHANGED ret
              /\ replaceDicts' = Alive(replaceDicts, stack')
    /\ UNCHANGED << kind, sf2vars, dirvars, bufvars, sfz, sfz_calls >>

NextSfz ==
    \/ SfzCall
    \/ PreprocessLine
    \/ PreprocessInclude
    \/ Tokenize
    \/ ResolveRegion
    \/ ResolveInherited
    \/ ResolveControl
    \/ ResolveOther
    \/ Finish

SpecSfz == InitSfz /\ [][NextSfz]_vars

(***************************************************************************)
(* convertFile on a directory (lines 40-65)                                *)
(***************************************************************************)
\* A file: its extension, and whether the pipeline it is dispatched to
\* raises on it.
File(ext, raises) == [isdir |-> FALSE, ext |-> ext, raises |-> raises]

\* A directory: the extension of its own name, whether the pipeline that
\* name is dispatched to raises on it (it does on opening it, unless it
\* finds the output of an earlier conversion first), and its entries.
Directory(ext, raises, entries) ==
    [isdir |-> TRUE, ext |-> ext, raises |-> raises, entries |-> entries]

\* The entries the directory is made of: files either pipeline converts or
\* fails on, a file of another kind, a directory with a failing file in it,
\* and a directory whose name ends like a zone-definition file's.
EntryPool ==
    { File("sfz", FALSE), File("sfz", TRUE), File("sf2", TRUE), File("txt", FALSE),
      Directory("", FALSE, << File("sf2", TRUE), File("sfz", FALSE) >>),
      Directory("sfz", TRUE, << File("sfz", FALSE) >>) }

Trees ==
    { Directory(named[1], named[2], entries) :
        named \in { << "", FALSE >>, << "sf2", TRUE >>, << "sf2", FALSE >> },
        entries \in UNION { [1..n -> EntryPool] : n \in 0..MaxEntries } }

\* lines 52-57
file_extensions == {"sf2", "sfz"}

\* the entry of the tree at a path (a sequence of positions)
RECURSIVE EntryAt(_, _)
EntryAt(dir, path) ==
    IF path = << >> THEN dir ELSE EntryAt(dir.entries[Head(path)], Tail(path))

\* an error of an entry's conversion is raised again
PropagatesReraised(raised) == raised

\* lines 47-50: whether an error of an entry's conversion leaves the loop
Propagates(raised) == FALSE

InitDir ==
    /\ kind = "dir"
    /\ IdleBuf
    /\ IdleSf2
    /\ IdleSfz
    /\ tree \in Trees
    /\ walk = << >>
    /\ attempted = {}
    /\ dir_ret = "none"

\* the directory the innermost call walks, and the entry its loop is at
Walking == walk[Len(walk)]
WalkedDir == EntryAt(tree, Walking.path)
EntryPath == Append(Walking.path, Walking.next)

\* line 48 has returned or raised in the loop of the call below the innermost:
\* the loop goes on, or the error leaves every call
AfterEntry(calls, raised) ==
    IF calls = << >>
    THEN /\ walk' = << >>
         /\ dir_ret' = IF raised THEN "raised" ELSE "returned"
    ELSE IF Propagates(raised)
         THEN /\ walk' = << >>
              /\ dir_ret' = "raised"
         ELSE /\ walk' = [calls EXCEPT ![Len(calls)].next = @ + 1]
              /\ UNCHANGED dir_ret

\* lines 40-44: convertFile is called on the directory
DirCall ==
    /\ kind = "dir" /\ walk = << >> /\ dir_ret = "none"
    /\ walk' = << [path |-> << >>, next |-> 1] >>
    /\ UNCHANGED << kind, sf2vars, sfzvars, bufvars, tree, attempted, dir_ret >>

\* lines 45-50, 59-65: convertFile on an entry that is a file
ConvertEntry ==
    /\ kind = "dir" /\ walk # << >>
    /\ Walking.next <= Len(WalkedDir.entries)
    /\ ~EntryAt(tree, EntryPath).isdir
    /\ attempted' = attempted \cup {EntryPath}
    /\ LET f == EntryAt(tree, EntryPath)
       IN  AfterEntry(walk, f.ext \in file_extensions /\ f.raises)
    /\ UNCHANGED << kind, sf2vars, sfzvars, bufvars, tree >>

\* lines 45-48, 43-44: convertFile on an entry that is a directory
EnterDirectory ==
    /\ kind = "dir" /\ walk # << >>
    /\ Walking.next <= Len(WalkedDir.entries)
    /\ EntryAt(tree, EntryPath).isdir
    /\ attempted' = attempted \cup {EntryPath}
    /\ walk' = Append(walk, [path |-> EntryPath, next |-> 1])
    /\ UNCHANGED << kind, sf2vars, sfzvars, bufvars, tree, dir_ret >>

\* lines 59-65 once the loop has ended: the directory's own name is
\* dispatched on
LeaveDirectory ==
    /\ kind = "dir" /\ walk # << >>
    /\ Walking.next > Len(WalkedDir.entries)
    /\ AfterEntry(SubSeq(walk, 1, Len(walk) - 1),
                  WalkedDir.ext \in file_extensions /\ WalkedDir.raises)
    /\ UNCHANGED << kind, sf2vars, sfzvars, bufvars, tree, attempted >>

NextDir ==
    \/ DirCall
    \/ ConvertEntry
    \/ EnterDirectory
    \/ LeaveDirectory

SpecDir == InitDir /\ [][NextDir]_vars

(***************************************************************************)
(* buffer2mp3b64 (lines 251-262) and buffer2wavb64 (lines 281-303): the    *)
(* PCM handed to the encoder.  Float rounding is left aside: a quotient is *)
(* taken exactly and cut towards zero where the code casts to int16.       *)
(***************************************************************************)
\* np.arange(32): the length of the ramp
RampLen == 32

\* The buffers: every length up to MaxFrames, the empty buffer too, of a
\* constant level or of a wave whose largest swing is negative.
Wave(shape, i) ==
    CASE shape = "level" -> 100
      [] shape = "swing" -> IF i % 2 = 1 THEN 50 ELSE 0 - 100

Buffers ==
    { [i \in 1..n |-> Wave(shape, i)] : n \in 0..MaxFrames,
                                        shape \in {"level", "swing"} }

\* a float cast to np.int16: the quotient a / b cut towards zero (b > 0)
AsInt16(a, b) == IF a >= 0 THEN a \div b ELSE 0 - ((0 - a) \div b)

Abs(a) == IF a >= 0 THEN a ELSE 0 - a

\* np.max(np.abs(y)) of a buffer that is not empty
MaxAbs(buf) ==
    CHOOSE m \in {Abs(buf[i]) : i \in 1..Len(buf)} :
        \A i \in 1..Len(buf) : Abs(buf[i]) <= m

\* y[:32] op np.arange(32): the shapes (n,) and (32,) broadcast only when
\* n is 32 (the slice of a longer buffer) -- a slice of one sample would
\* broadcast to (32,), which the slice it is stored to cannot hold
RampRaises(buf) == Len(buf) < RampLen

InitBuf ==
    /\ kind = "buf"
    /\ IdleSf2
    /\ IdleSfz
    /\ IdleDir
    /\ buffer \in Buffers
    /\ encoded = [how |-> "none"]

\* lines 251-258: the samples AudioSegment is given
buffer2mp3b64 ==
    /\ kind = "buf" /\ encoded.how = "none"
    /\ encoded' =
          IF buffer = << >> \/ RampRaises(buffer)
          THEN [how |-> "raised", by |-> "mp3", why |-> "ValueError"]
          ELSE [how |-> "returned", by |-> "mp3",
                pcm |-> [i \in 1..Len(buffer) |->
                           IF i - 1 < RampLen
                           THEN AsInt16(buffer[i] * (i - 1) * 16384,
                                        MaxAbs(buffer) * RampLen)
                           ELSE AsInt16(buffer[i] * 16384, MaxAbs(buffer))]]
    /\ UNCHANGED << kind, sf2vars, sfzvars, dirvars, buffer >>

\* lines 281-295: the samples AudioSegment is given (y is np.int16)
buffer2wavb64 ==
    /\ kind = "buf" /\ encoded.how = "none"
    /\ encoded' =
          IF RampRaises(buffer)
          THEN [how |-> "raised", by |-> "wav", why |-> "ValueError"]
          ELSE [how |-> "returned", by |-> "wav",
                pcm |-> [i \in 1..Len(buffer) |->
                           IF i - 1 < RampLen
                           THEN AsInt16(buffer[i] * (i - 1), RampLen)
                           ELSE buffer[i]]]
    /\ UNCHANGED << kind, sf2vars, sfzvars, dirvars, buffer >>

NextBuf ==
    \/ buffer2mp3b64
    \/ buffer2wavb64

SpecBuf == InitBuf /\ [][NextBuf]_vars

(***************************************************************************)
(* sf22soundJson                                                           *)
(***************************************************************************)
\* max(1, min(8, (os.cpu_count() or 1)))
max_workers ==
    LET n == IF cpu_count = 0 THEN 1 ELSE cpu_count
        m == IF n < 8 THEN n ELSE 8
    IN  IF m > 1 THEN m ELSE 1

\* The pool's threads take the queued tasks oldest first, as many at a time
\* as there are threads: the tasks that are running once task `ended` (0 for
\* none) has ended.
Dispatch(fut, ended) ==
    LET open == {u \in DOMAIN fut : u # ended /\ fut[u] \in {"queued", "running"}}
        first == {u \in open :
                     Cardinality({v \in open : v < u}) < max_workers}
    IN  [u \in DOMAIN fut |->
            IF u \in first THEN "running" ELSE fut[u]]

primaryKey(inst) == InFilename \o << "_" >> \o inst.name

out_path(unique_name) == unique_name \o JsonExt

\* f.endswith(".json")
EndsWithJson(f) ==
    Len(f) >= Len(JsonExt) /\ SubSeq(f, Len(f) - Len(JsonExt) + 1, Len(f)) = JsonExt

\* the listing taken as os.listdir gives it, in an order that is not the
\* same from one call to the next
existing_files_unsorted ==
    LET files == Sorted({f \in DOMAIN outdir : EndsWithJson(f)})
    IN  IF Len(runs) % 2 = 0 THEN files
        ELSE [i \in 1..Len(files) |-> files[Len(files) + 1 - i]]

existing_files == Sorted({f \in DOMAIN outdir : EndsWithJson(f)})

\* patches.update(json.load(f)) for each existing file, in sorted order
RECURSIVE MergeFiles(_, _)
MergeFiles(files, acc) ==
    IF files = << >> THEN acc
    ELSE LET patch == outdir[Head(files)]
         IN  MergeFiles(Tail(files), Put(acc, patch.key, patch.dict))

\* the unique name the loop gives an instrument whose sanitized name was
\* seen `count` times before
UniqueName(sanitized, count) ==
    IF count = 0 THEN sanitized ELSE sanitized \o << "_" >> \o IntToStr(count)

\* processSf2Sample: one sample zone appended to the patch
ProcessSf2SampleNo(soundJsonDict) == Len(soundJsonDict.samples)

processSf2Sample(bag, soundJsonDict) ==
    LET pitch == IF bag.base_note # << >> THEN bag.base_note[1]
                 ELSE bag.original_pitch
        sampleDict ==
            [sampleNo        |-> ProcessSf2SampleNo(soundJsonDict),
             sample          |-> bag.sample,
             lengthSamples   |-> bag.frames,
             pitch_keycenter |-> IF soundJsonDict.percussion # 0
                                 THEN soundJsonDict.percussiveSampleIndex
                                 ELSE pitch]
    IN  [soundJsonDict EXCEPT
            !.samples = Append(@, sampleDict),
            !.percussiveSampleIndex =
                IF soundJsonDict.percussion # 0 THEN @ + 1 ELSE @]

\* lines 312-319: buffer2mp3b64 or buffer2wavb64 raises ValueError on a
\* buffer shorter than the ramp, the empty buffer among them
SampleRaises(bag) == bag.frames < RampLen

\* whether process_instrument raises on this instrument
TaskRaises(inst) ==
    \E i \in 1..Len(inst.bags) :
        inst.bags[i].sample # "None" /\ SampleRaises(inst.bags[i])

\* the loop over inst.bags of process_instrument
RECURSIVE ProcessBags(_, _)
ProcessBags(bags, soundJsonDict) ==
    IF bags = << >> THEN soundJsonDict
    ELSE ProcessBags(Tail(bags),
                     IF Head(bags).sample # "None"
                     THEN processSf2Sample(Head(bags), soundJsonDict)
                     ELSE soundJsonDict)

\* process_instrument up to its toFile: the patch of one instrument
process_instrument(inst, unique_name) ==
    [ProcessBags(inst.bags,
                 [name |-> inst.name, percussion |-> 0,
                  percussiveSampleIndex |-> 45, success |-> TRUE,
                  samples |-> << >>, outFilename |-> << >>])
        EXCEPT !.outFilename = out_path(unique_name)]

Tasks == 1..Len(instruments)

NoFutures == [t \in {} |-> "queued"]

InitSf2 ==
    /\ kind = "sf2"
    /\ IdleBuf
    /\ IdleSfz
    /\ IdleDir
    /\ sf2 \in Containers
    /\ cpu_count \in CpuCounts
    /\ outdir = EmptyDict
    /\ force = FALSE
    /\ pc = "idle"
    /\ idx = 0
    /\ name_counts = EmptyDict
    /\ instruments = << >>
    /\ future = NoFutures
    /\ merged = {}
    /\ patches = EmptyDict
    /\ runs = << >>

\* The call ends: its outcome is logged and its locals are gone.
EndRun(how, result) ==
    /\ runs' = Append(runs, [how |-> how, result |-> result])
    /\ pc' = "idle"
    /\ force' = FALSE
    /\ idx' = 0
    /\ name_counts' = EmptyDict
    /\ instruments' = << >>
    /\ future' = NoFutures
    /\ merged' = {}
    /\ patches' = EmptyDict

\* lines 73-84: not forced and JSON files present: they are the result
SkipRun ==
    /\ kind = "sf2" /\ pc = "idle" /\ Len(runs) < MaxRuns
    /\ existing_files # << >>
    /\ EndRun("skipped", MergeFiles(existing_files, EmptyDict))
    /\ UNCHANGED << kind, sfzvars, dirvars, bufvars, sf2, cpu_count, outdir >>

\* lines 73-87: the call goes on to convert
StartConvert ==
    /\ kind = "sf2" /\ pc = "idle" /\ Len(runs) < MaxRuns
    /\ \E f \in BOOLEAN :
          /\ f \/ existing_files = << >>
          /\ force' = f
    /\ pc' = "assign"
    /\ idx' = 1
    /\ name_counts' = EmptyDict
    /\ instruments' = << >>
    /\ future' = NoFutures
    /\ merged' = {}
    /\ patches' = EmptyDict
    /\ UNCHANGED << kind, sfzvars, dirvars, bufvars, sf2, cpu_count, outdir, runs >>

\* lines 88-96: one turn of the loop over sf2.instruments
AssignName ==
    /\ kind = "sf2" /\ pc = "assign" /\ idx <= Len(sf2)
    /\ LET sf2inst == sf2[idx]
           sanitized == sanitize_filename(sf2inst.name)
           count == IF sanitized \in DOMAIN name_counts
                    THEN name_counts[sanitized] ELSE 0
       IN  IF sf2inst.name = EOI
           THEN UNCHANGED << name_counts, instruments >>
           ELSE /\ name_counts' = Put(name_counts, sanitized, count + 1)
                /\ instruments' =
                       Append(instruments,
                              [inst |-> sf2inst,
                               unique_name |-> UniqueName(sanitized, count)])
    /\ idx' = idx + 1
    /\ UNCHANGED << kind, sfzvars, dirvars, bufvars, sf2, cpu_count, outdir, force, pc, future, merged,
                    patches, runs >>

\* lines 98-99
ReturnEmpty ==
    /\ kind = "sf2" /\ pc = "assign" /\ idx > Len(sf2)
    /\ instruments = << >>
    /\ EndRun("converted", EmptyDict)
    /\ UNCHANGED << kind, sfzvars, dirvars, bufvars, sf2, cpu_count, outdir >>

\* lines 125-131: every instrument is submitted to the pool
Submit ==
    /\ kind = "sf2" /\ pc = "assign" /\ idx > Len(sf2)
    /\ instruments # << >>
    /\ future' = Dispatch([t \in Tasks |-> "queued"], 0)
    /\ pc' = "pool"
    /\ UNCHANGED << kind, sfzvars, dirvars, bufvars, sf2, cpu_count, outdir, force, idx, name_counts,
                    instruments, merged, patches, runs >>

\* lines 101-123: process_instrument runs to its end and writes its file
FinishTask(t) ==
    /\ kind = "sf2" /\ pc \in {"pool", "raising"}
    /\ future[t] = "running"
    /\ ~TaskRaises(instruments[t].inst)
    /\ LET inst == instruments[t].inst
           unique_name == instruments[t].unique_name
       IN  outdir' = Put(outdir, out_path(unique_name),
                         [key  |-> primaryKey(inst),
                          dict |-> process_instrument(inst, unique_name)])
    /\ future' = Dispatch([future EXCEPT ![t] = "done"], t)
    /\ UNCHANGED << kind, sfzvars, dirvars, bufvars, sf2, cpu_count, force, pc, idx, name_counts,
                    instruments, merged, patches, runs >>

\* lines 113-116: processSf2Sample raises: the task ends without writing
FailTask(t) ==
    /\ kind = "sf2" /\ pc \in {"pool", "raising"}
    /\ future[t] = "running"
    /\ TaskRaises(instruments[t].inst)
    /\ future' = Dispatch([future EXCEPT ![t] = "failed"], t)
    /\ UNCHANGED << kind, sfzvars, dirvars, bufvars, sf2, cpu_count, outdir, force, pc, idx, name_counts,
                    instruments, merged, patches, runs >>

\* as_completed hands over a future once it has ended
Completed(t) == future[t] \in {"done", "failed"}

\* the caller takes a result without waiting for the task to end
MergeResultEarly(t) ==
    /\ kind = "sf2" /\ pc = "pool"
    /\ t \notin merged
    /\ ~TaskRaises(instruments[t].inst)
    /\ LET inst == instruments[t].inst
       IN  patches' = Put(patches, primaryKey(inst),
                          process_instrument(inst, instruments[t].unique_name))
    /\ merged' = merged \cup {t}
    /\ UNCHANGED << kind, sfzvars, dirvars, bufvars, sf2, cpu_count, outdir, force, pc, idx, name_counts,
                    instruments, future, runs >>

\* lines 132-134: the caller takes a finished task's result into patches
MergeResult(t) ==
    /\ kind = "sf2" /\ pc = "pool"
    /\ t \notin merged
    /\ Completed(t)
    /\ future[t] = "done"
    /\ LET inst == instruments[t].inst
       IN  patches' = Put(patches, primaryKey(inst),
                          process_instrument(inst, instruments[t].unique_name))
    /\ merged' = merged \cup {t}
    /\ UNCHANGED << kind, sfzvars, dirvars, bufvars, sf2, cpu_count, outdir, force, pc, idx, name_counts,
                    instruments, future, runs >>

\* line 133: future.result() raises the task's exception in the caller
RaiseResult(t) ==
    /\ kind = "sf2" /\ pc = "pool"
    /\ t \notin merged
    /\ Completed(t)
    /\ future[t] = "failed"
    /\ pc' = "raising"
    /\ merged' = {}
    /\ UNCHANGED << kind, sfzvars, dirvars, bufvars, sf2, cpu_count, outdir, force, idx, name_counts,
                    instruments, future, patches, runs >>

\* line 127: leaving the with block waits for every task (shutdown(wait=True))
PoolIdle == \A t \in Tasks : Completed(t)

\* line 135
ReturnPatches ==
    /\ kind = "sf2" /\ pc = "pool"
    /\ merged = Tasks
    /\ PoolIdle
    /\ EndRun("converted", patches)
    /\ UNCHANGED << kind, sfzvars, dirvars, bufvars, sf2, cpu_count, outdir >>

\* the exception of line 133 leaves sf22soundJson
Propagate ==
    /\ kind = "sf2" /\ pc = "raising"
    /\ PoolIdle
    /\ EndRun("raised", EmptyDict)
    /\ UNCHANGED << kind, sfzvars, dirvars, bufvars, sf2, cpu_count, outdir >>

NextSf2 ==
    \/ SkipRun
    \/ StartConvert
    \/ AssignName
    \/ ReturnEmpty
    \/ Submit
    \/ \E t \in Tasks : FinishTask(t)
    \/ \E t \in Tasks : FailTask(t)
    \/ \E t \in Tasks : MergeResult(t)
    \/ \E t \in Tasks : RaiseResult(t)
    \/ ReturnPatches
    \/ Propagate

SpecSf2 == InitSf2 /\ [][NextSf2]_vars

(***************************************************************************)
(* convertFile: one path, dispatched to a pipeline or walked.              *)
(***************************************************************************)
Init == InitDir \/ InitSf2 \/ InitSfz \/ InitBuf

Next == NextDir \/ NextSf2 \/ NextSfz \/ NextBuf

Spec == Init /\ [][Next]_vars

(***************************************************************************)
(* Properties of sf22soundJson.                                            *)
(***************************************************************************)
NonEOI == {i \in 1..Len(sf2) : sf2[i].name # EOI}

\* C2: every call that converts returns exactly as many patches as the
\* container has instruments that are not the end marker.
C2_PatchCountEqualsInstruments ==
    \A n \in 1..Len(runs) :
        runs[n].how = "converted" =>
            Cardinality(DOMAIN runs[n].result) = Cardinality(NonEOI)

\* sampleNo of the sample at position i (from 0) is i
WellNumbered(samples) ==
    \A i \in 1..Len(samples) : samples[i].sampleNo = i - 1

\* a call that ends a step later, and how
RunEnds(how) == Len(runs') = Len(runs) + 1 /\ runs'[Len(runs')].how = how

\* C4: a call that takes the skip path leaves the JSON files as they are, and
\* when the call before it took the skip path too, both returned the same
\* mapping.
C4_SkipTwiceSameContent ==
    [][RunEnds("skipped") =>
         /\ outdir' = outdir
         /\ (Len(runs) > 0 /\ runs[Len(runs)].how = "skipped") =>
                runs'[Len(runs')].result = runs[Len(runs)].result]_vars

\* two skip-path calls in a row, over files of which two hold the same key
C4_Witness ==
    /\ \E n \in 1..(Len(runs) - 1) :
          runs[n].how = "skipped" /\ runs[n + 1].how = "skipped"
    /\ \E f, g \in DOMAIN outdir : f # g /\ outdir[f].key = outdir[g].key

\* C6: no two instruments of the container are given the same output path.
C6_OutputPathsDistinct ==
    \A i, j \in 1..Len(instruments) :
        i # j => out_path(instruments[i].unique_name)
                   # out_path(instruments[j].unique_name)

WorkerStep == \E t \in Tasks : FinishTask(t) \/ FailTask(t)

C15_SkipPathIsComplete ==
    \A n \in 1..Len(runs) :
        runs[n].how = "skipped" =>
            \A i \in NonEOI : primaryKey(sf2[i]) \in DOMAIN runs[n].result

(***************************************************************************)
(* Properties of sfz2soundJson.                                            *)
(***************************************************************************)
\* the innermost call a step later
NextTop == stack'[Len(stack')]

\* a region section is resolved into a sample zone by the step
RegionAppended ==
    /\ AtSection /\ TheSection.name = "region"
    /\ Len(stack') = Len(stack)
    /\ Len(NextTop.soundJsonDict.samples) = Len(Top.soundJsonDict.samples) + 1

\* the keys the global, master or group section in force sets
ActiveKeys ==
    DOMAIN Top.soundJsonDict.globalDict \cup DOMAIN Top.soundJsonDict.masterDict
        \cup DOMAIN Top.soundJsonDict.groupDict

\* C1: the zone a region is resolved into carries the region's own value for
\* every key the region sets and the group, master or global in force sets too.
C1_RegionValueWins ==
    [][RegionAppended =>
         LET zone == NextTop.soundJsonDict.samples[Len(NextTop.soundJsonDict.samples)]
             explicit == TheSection.attrs
         IN  \A k \in DOMAIN explicit \cap ActiveKeys :
                 IF k = "pitch_keycenter"
                 THEN ~PitchRaises(explicit) => zone[k] = PitchKey(explicit)
                 ELSE zone[k] = explicit[k]]_vars

\* C5: with a gold file next to the output, success is true exactly when the
\* gold file is identical to the text that was written; either way the file
\* is written and the patch returned.
C5_GoldDecidesSuccess ==
    ret.how = "returned" /\ ret.gold # "absent" =>
        /\ OutFilename(ret.patch.file) \in DOMAIN jsonfiles
        /\ ret.patch.dict.success =
               (ret.goldtext[1] = jsonfiles[OutFilename(ret.patch.file)])

\* C9: the included file's table is, when its call starts, equal to the
\* including file's and another object; the table of a call that waits at an
\* inclusion line is changed by no step of the calls it waits for, and the
\* inclusion line itself does not change the table of the call it is in.
C9_IncludeCopiesTable ==
    [][/\ \A i \in 1..Len(stack) :
              i < Len(stack) /\ i <= Len(stack') =>
                  /\ stack'[i].ref = stack[i].ref
                  /\ replaceDicts'[stack'[i].ref] = replaceDicts[stack[i].ref]
       /\ Len(stack') = Len(stack) + 1 /\ stack # << >> =>
              /\ NextTop.ref # Top.ref
              /\ replaceDicts'[NextTop.ref] = replaceDicts[Top.ref]
              /\ replaceDicts'[Top.ref] = replaceDicts[Top.ref]
       /\ (/\ stack # << >> /\ Len(stack') = Len(stack)
           /\ Top.at = "preprocess" /\ NextTop.lineNo = Top.lineNo + 1
           /\ HasInclude(Line)) =>
              replaceDicts'[NextTop.ref] = replaceDicts[Top.ref]]_vars

\* an included file that includes a file: each of the three calls has
\* defined a macro the call that waits for it does not have
C9_Witness ==
    /\ Len(stack) = 3
    /\ replaceDicts[stack[1].ref] # << >>
    /\ Len(replaceDicts[stack[2].ref]) > Len(replaceDicts[stack[1].ref])
    /\ Len(replaceDicts[stack[3].ref]) > Len(replaceDicts[stack[2].ref])

\* a section name that is none of the eight the format has
UnknownName(sectionName) ==
    sectionName \notin {"global", "master", "group", "region", "control",
                        "comment", "curve", ""}

HasUnknownSection(frame) ==
    \E n \in 1..Len(frame.sections) : UnknownName(frame.sections[n].name)

\* C10: a file whose sections hold an unknown name has no JSON file written
\* and no patch returned, and the call that comes to the unknown section ends
\* every call with an error.
C10_UnknownSectionAborts ==
    [][/\ (jsonfiles' # jsonfiles \/ (ret' # ret /\ ret'.how = "returned")) =>
              stack # << >> /\ ~HasUnknownSection(Top)
       /\ (AtSection /\ UnknownName(TheSection.name)) =>
              /\ ret'.how = "raised" /\ stack' = << >>
              /\ jsonfiles' = jsonfiles]_vars

\* the file convertFile was given ended on an unknown section that valid
\* sections precede, and has no JSON file
C10_Witness ==
    /\ ret.how = "raised" /\ ret.why = "Unknown sfz header"
    /\ ret.filename = TopFile
    /\ ret.sectionNo > 1
    /\ \E n \in 1..(ret.sectionNo - 1) : ret.sections[n].name = "region"
    /\ OutFilename(TopFile) \notin DOMAIN jsonfiles

\* the entries of a macro table
Entries(table) == {<< table[i].k, table[i].v >> : i \in 1..Len(table)}

\* the words put back together with the spaces between them
RECURSIVE JoinSpaced(_)
JoinSpaced(words) ==
    IF words = << >> THEN << >>
    ELSE IF Len(words) = 1 THEN Head(words)
    ELSE Head(words) \o << " " >> \o JoinSpaced(Tail(words))

\* the line the innermost call is at, stripped and cut at "//", as written
WrittenLine == BeforeComment(OgLine)

\* the innermost call gets past a line that is written as a definition with
\* a name and a replacement
DefineStep ==
    /\ stack # << >> /\ Top.at = "preprocess"
    /\ Top.lineNo <= Len(SfzLines(Top.filename))
    /\ StartsWithDefine(WrittenLine) /\ Len(WrittenLine) >= 3
    /\ Len(stack') = Len(stack)
    /\ NextTop.lineNo = Top.lineNo + 1

\* C12: past a definition line the table maps the name the line gives to
\* the rest of the line, and holds every other entry it held before.
C12_DefineSetsName ==
    [][DefineStep =>
         LET NAME == WrittenLine[2]
             REPLACEMENT == JoinSpaced(SubSeq(WrittenLine, 3, Len(WrittenLine)))
         IN  Entries(replaceDicts'[NextTop.ref]) =
                 {e \in Entries(replaceDicts[Top.ref]) : e[1] # NAME}
                     \cup {<< NAME, REPLACEMENT >>}]_vars

\* max(|buffer|) of a sample file's buffer, in tenths of full scale
AbsolutePeak(sampleFilename) ==
    LET e == SampleExtremes(sampleFilename)
        lo == 0 - e.min
    IN  IF e.max >= lo THEN e.max ELSE lo

\* C13: the gain of every zone is 0.7 / max(|buffer|) of its sample file.
C13_GainFromAbsolutePeak ==
    \A i \in 1..Len(stack) :
        \A j \in 1..Len(stack[i].soundJsonDict.samples) :
            LET zone == stack[i].soundJsonDict.samples[j]
            IN  zone["gain"] = [n |-> 7, d |-> AbsolutePeak(zone["sampleFilename"])]

\* C14: a call convertFile issues has an empty macro table when it starts
\* on the first line of its file.
C14_TopLevelStartsEmpty ==
    (Len(stack) = 1 /\ Top.at = "preprocess" /\ Top.lineNo = 1) =>
        replaceDicts[Top.ref] = << >>

\* C16: once a conversion has returned, the success field in the JSON file
\* it wrote is the success field of the patch it returned.
C16_FileSuccessIsReturned ==
    ret.how = "returned" =>
        jsonfiles[OutFilename(ret.patch.file)].dict.success
            = ret.patch.dict.success

(***************************************************************************)
(* Properties of both pipelines.                                           *)
(***************************************************************************)
\* C3: in every patch, while it is built and once it is merged, written or
\* returned, the sample at position i (from 0) has sampleNo i.
C3_SampleNoIsPosition ==
    /\ \A k \in DOMAIN patches : WellNumbered(patches[k].samples)
    /\ \A f \in DOMAIN outdir : WellNumbered(outdir[f].dict.samples)
    /\ \A n \in 1..Len(runs) : \A k \in DOMAIN runs[n].result :
           WellNumbered(runs[n].result[k].samples)
    /\ \A i \in 1..Len(stack) : WellNumbered(stack[i].soundJsonDict.samples)
    /\ \A f \in DOMAIN jsonfiles : WellNumbered(jsonfiles[f].dict.samples)
    /\ ret.how = "returned" => WellNumbered(ret.patch.dict.samples)

\* three regions, the second of them skipped for its missing sample file,
\* have given a patch of two zones
C3_Witness ==
    /\ Len(sfz) = 3 /\ sfz[1] = sfz[3]
    /\ Len(stack) = 1
    /\ Top.regionsSeen = 3
    /\ Len(Top.soundJsonDict.samples) = 2

(***************************************************************************)
(* Properties of convertFile on a directory.                               *)
(***************************************************************************)
\* the paths of the entries of a directory and of the directories in it
RECURSIVE PathsUnder(_, _)
PathsUnder(dir, path) ==
    UNION { {Append(path, n)} \cup
                (IF dir.entries[n].isdir
                 THEN PathsUnder(dir.entries[n], Append(path, n))
                 ELSE {})
            : n \in 1..Len(dir.entries) }

\* the entry raises when convertFile is called on it
EntryRaises(e) == e.ext \in {"sf2", "sfz"} /\ e.raises

\* C8: when convertFile on a directory ends, it was called on every entry,
\* and an error reaches the caller only from the dispatch on the directory's
\* own name; while it runs, every entry before the one the loop is at was
\* attempted.
C8_EveryEntryAttempted ==
    /\ dir_ret # "none" =>
          /\ attempted = PathsUnder(tree, << >>)
          /\ dir_ret = "raised" <=> EntryRaises(tree)
    /\ \A i \in 1..Len(walk) : \A n \in 1..(walk[i].next - 1) :
           Append(walk[i].path, n) \in attempted

\* the walk ended normally over a directory whose first entry raises and has
\* a sibling after it
C8_Witness ==
    /\ dir_ret = "returned"
    /\ Len(tree.entries) >= 2
    /\ EntryRaises(tree.entries[1])
    /\ << 2 >> \in attempted

(***************************************************************************)
(* Properties of buffer2mp3b64 and buffer2wavb64.                          *)
(***************************************************************************)
\* the sample at position i (from 1) before the ramp, as the encoder's int16
Unramped(i) ==
    IF encoded.by = "mp3" THEN [n |-> buffer[i] * 16384, d |-> MaxAbs(buffer)]
    ELSE [n |-> buffer[i], d |-> 1]

\* C11: on every buffer that is not empty the call returns; the sample at
\* index i < 32 is scaled by i/32 and the later samples are not.
C11_FadeInEveryLength ==
    (encoded.how # "none" /\ buffer # << >>) =>
        /\ encoded.how = "returned"
        /\ Len(encoded.pcm) = Len(buffer)
        /\ \A i \in 1..Len(buffer) :
               encoded.pcm[i] =
                   IF i - 1 < 32
                   THEN AsInt16(Unramped(i).n * (i - 1), Unramped(i).d * 32)
                   ELSE AsInt16(Unramped(i).n, Unramped(i).d)

=============================================================================
